---- MODULE Spec2Model ----
(***************************************************************************)
(* posquelize: CodeFile (dry-run aware file artifact), ModelFormatter      *)
(* (naming facade and template-variable factories), StringHelper (case and *)
(* number transforms) and DbmlDiagramExporter (DBML export).               *)
(*                                                                         *)
(* Text is a sequence of one-character strings.  A path is a sequence of   *)
(* path components.  The file system is the pair (dirs, files).            *)
(***************************************************************************)
EXTENDS Integers, Sequences, FiniteSets, TLC

VARIABLES
  dirs,        \* file system: the set of existing directories (paths)
  files,       \* file system: file path -> its text, or NoFile
  dirs0,       \* file system when the object under study was constructed
  files0,
  filename,    \* CodeFile.filename / export's outputFile
  content,     \* CodeFile.content
  dryRun,      \* options.dryRun
  saves,       \* CodeFile: number of save() calls made on the instance
  diffs,       \* CodeFile: number of direct diff() calls made on the instance
  rendered,    \* CodeFile: number of diffs rendered on the console
  written,     \* number of FileHelper.saveTextToFile invocations
  last,        \* CodeFile: outcome of the last operation
  naming,      \* ModelFormatter: options.generator?.model?.naming, or NoNaming
  fmt,         \* ModelFormatter: "none" before create, "created" after
  tableName,   \* ModelFormatter: the name given to the name getters
  override,    \* template-variable factories: the partial record passed in
  res,         \* ModelFormatter / StringHelper / factories: last call and result
  conn,        \* DbmlDiagramExporter.export: connectionString
  pc,          \* DbmlDiagramExporter.export: position of the async call
  outcome,     \* DbmlDiagramExporter.export: state of the returned promise
  trace        \* DbmlDiagramExporter.export: the steps performed, in order

vars == <<dirs, files, dirs0, files0, filename, content, dryRun, saves, diffs,
          rendered, written, last, naming, fmt, tableName, override, res,
          conn, pc, outcome, trace>>

fsVars == <<dirs, files, dirs0, files0>>
fileVars == <<filename, content, dryRun, saves, diffs, rendered, written, last>>
fmtVars == <<naming, fmt, tableName, override, res>>
expVars == <<conn, pc, outcome, trace>>

----------------------------------------------------------------------------
(* Bounds *)

MaxDepth == 2      \* deepest directory nesting of a target path
MaxContent == 2    \* longest file text
MaxCalls == 2      \* calls of one kind made on one CodeFile instance
MaxName == 4       \* longest identifier given to formatName
MaxTable == 3      \* longest table name given to a ModelFormatter
MaxOverride == 2   \* most slot keys carried by a template-variable override

----------------------------------------------------------------------------
(* Generic helpers *)

Max(a, b) == IF a >= b THEN a ELSE b

SeqsUpTo(S, n) == UNION { [1..k -> S] : k \in 0..n }

----------------------------------------------------------------------------
(* The file system (node:fs) *)

\* the value of files at a path that holds no file (no text equals it)
NoFile == <<"<absent>">>
None == "<none>"

DirPath(k) == [i \in 1..k |-> "d"]
DirPaths == { DirPath(k) : k \in 0..MaxDepth }
FileNames == {"f", "README.md"}
FilePaths == { Append(d, n) : d \in DirPaths, n \in FileNames }
TargetPaths == { Append(d, "f") : d \in DirPaths }

ContentChars == {"x", "y"}
Contents == SeqsUpTo(ContentChars, MaxContent)

\* path.dirname / path.basename
dirname(p) == SubSeq(p, 1, Len(p) - 1)
basename(p) == p[Len(p)]

\* every prefix of a directory path, the path included
Ancestors(d) == { SubSeq(d, 1, k) : k \in 0..Len(d) }

\* fs.existsSync
existsSync(ds, fl, p) == (p \in ds) \/ (p \in DOMAIN fl /\ fl[p] # NoFile)

\* fs.readFileSync(p, {encoding: 'utf-8'}) of an existing file
readFileSync(fl, p) == fl[p]

\* fs.mkdirSync(d, {recursive: true})
mkdirSync(ds, d) == ds \cup Ancestors(d)

\* a file system the program can run on: the root exists, directories exist
\* with all their ancestors, files live in existing directories
ValidFs(ds, fl) ==
  /\ <<>> \in ds
  /\ \A d \in ds : Ancestors(d) \subseteq ds
  /\ \A p \in DOMAIN fl : fl[p] # NoFile => dirname(p) \in ds

NoFiles == [p \in FilePaths |-> NoFile]

\* the file systems a run starts on, as far as a target path p can tell them
\* apart: some chain of directories exists, and p holds a text or nothing
InitialFs(p) ==
  { <<ds, fl>> \in
      { Ancestors(d) : d \in DirPaths } \X
      ({ NoFiles } \cup { [NoFiles EXCEPT ![p] = c] : c \in Contents }) :
      ValidFs(ds, fl) }

\* FileHelper.saveTextToFile(path, text): creates the parent directories as
\* needed and writes the whole text, overwriting.  io is what the operating
\* system lets happen: "ok", "mkdir_fail" (nothing done) or "write_fail"
\* (directories made, file not written); a failure throws.
IoOutcomes == {"ok", "mkdir_fail", "write_fail"}
saveDirs(ds, p, io) == IF io = "mkdir_fail" THEN ds ELSE mkdirSync(ds, dirname(p))
saveFiles(fl, p, text, io) == IF io = "ok" THEN [fl EXCEPT ![p] = text] ELSE fl

\* the parts of the state a specification does not use
FsIdle == dirs = {<<>>} /\ files = NoFiles /\ dirs0 = dirs /\ files0 = files
FileIdle ==
  /\ filename = None /\ content = None /\ dryRun = None
  /\ saves = 0 /\ diffs = 0 /\ rendered = 0 /\ written = 0 /\ last = None
FmtIdle == naming = None /\ fmt = None /\ tableName = None /\ override = None /\ res = None
ExpIdle == conn = None /\ pc = None /\ outcome = None /\ trace = <<>>

----------------------------------------------------------------------------
(* diffChars of the 'diff' package: a minimal character edit script, kept   *)
(* here as the number of added and of removed characters.                  *)

RECURSIVE LCS(_, _)
LCS(a, b) ==
  IF a = <<>> \/ b = <<>> THEN 0
  ELSE IF Head(a) = Head(b) THEN 1 + LCS(Tail(a), Tail(b))
  ELSE Max(LCS(Tail(a), b), LCS(a, Tail(b)))

diffChars(old, new) ==
  [added |-> Len(new) - LCS(old, new), removed |-> Len(old) - LCS(old, new)]

----------------------------------------------------------------------------
(* CodeFile *)

\* CodeFile.readExistingFile
readExistingFileOrEmpty(ds, fl, fname, text) ==
  IF existsSync(ds, fl, fname) THEN readFileSync(fl, fname) ELSE <<>>
readExistingFile(ds, fl, fname, text) ==
  IF existsSync(ds, fl, fname) THEN readFileSync(fl, fname) ELSE text

\* what CodeFile.diff puts on the console: the header box naming the file
\* and the colored edit script
diffOutput(ds, fl, fname, text) ==
  [op |-> "diff", file |-> fname,
   changes |-> diffChars(readExistingFile(ds, fl, fname, text), text)]

\* options.dryRun: true, false, or not set
DryRunValues == {"true", "false", "undefined"}
Truthy(v) == v = "true"

\* CodeFile.save takes the preview branch: if (this.options?.dryRun)
savePreviewsNever(dr) == FALSE
savePreviewsAlways(dr) == TRUE
savePreviews(dr) == Truthy(dr)

\* the text CodeFile.save hands to FileHelper.saveTextToFile: this.content
saveTextExisting(ds, fl, fname, text) == readExistingFile(ds, fl, fname, text)
saveText(ds, fl, fname, text) == text

CodeFileInit ==
  /\ filename \in TargetPaths
  /\ \E s \in InitialFs(filename) : dirs = s[1] /\ files = s[2]
  /\ dirs0 = dirs /\ files0 = files
  /\ content \in Contents
  /\ dryRun \in DryRunValues
  /\ saves = 0 /\ diffs = 0 /\ rendered = 0 /\ written = 0
  /\ last = [op |-> "new"]
  /\ FmtIdle /\ ExpIdle

\* CodeFile.readExistingFile()
ReadExistingFile ==
  /\ last' = [op |-> "read", value |-> readExistingFile(dirs, files, filename, content)]
  /\ UNCHANGED <<fsVars, filename, content, dryRun, saves, diffs, rendered, written>>
  /\ UNCHANGED <<fmtVars, expVars>>

\* CodeFile.diff()
Diff ==
  /\ diffs < MaxCalls
  /\ diffs' = diffs + 1
  /\ rendered' = rendered + 1
  /\ last' = diffOutput(dirs, files, filename, content)
  /\ UNCHANGED <<fsVars, filename, content, dryRun, saves, written>>
  /\ UNCHANGED <<fmtVars, expVars>>

\* CodeFile.save()
Save ==
  /\ saves < MaxCalls
  /\ saves' = saves + 1
  /\ IF savePreviews(dryRun)
       THEN /\ rendered' = rendered + 1
            /\ last' = diffOutput(dirs, files, filename, content)
            /\ UNCHANGED <<dirs, files, written>>
       ELSE \E io \in IoOutcomes :
            /\ written' = written + 1
            /\ dirs' = saveDirs(dirs, filename, io)
            /\ files' = saveFiles(files, filename, saveText(dirs, files, filename, content), io)
            /\ last' = [op |-> "write", io |-> io, madeDir |-> dirname(filename) \notin dirs]
            /\ UNCHANGED rendered
  /\ UNCHANGED <<dirs0, files0, filename, content, dryRun, diffs>>
  /\ UNCHANGED <<fmtVars, expVars>>

CodeFileNext == ReadExistingFile \/ Diff \/ Save

Spec == CodeFileInit /\ [][CodeFileNext]_vars

----------------------------------------------------------------------------
(* CodeFile: claims *)

\* C1: with options.dryRun true, no sequence of save() and diff() calls
\* changes the file system (no directory or file is created, modified or
\* removed) and FileHelper.saveTextToFile is never invoked.
C1_DryRunLeavesFsUnchanged ==
  Truthy(dryRun) => (dirs = dirs0 /\ files = files0 /\ written = 0)

\* a dry-run instance whose content differs from the file on disk, after
\* save() and diff() have both been called
C1_Witness ==
  /\ Truthy(dryRun) /\ saves >= 1 /\ diffs >= 1
  /\ files[filename] # NoFile /\ files[filename] # content

\* C2: in write mode a save() that returns normally leaves the parent
\* directory (and its ancestors) existing and the target path holding
\* exactly the candidate content, whatever it held before.
C2_WriteCreatesParentAndFile ==
  (last.op = "write" /\ last.io = "ok") =>
    /\ Ancestors(dirname(filename)) \subseteq dirs
    /\ existsSync(dirs, files, filename)
    /\ readFileSync(files, filename) = content

\* a write-mode save() that had to create a nested parent directory
C2_Witness ==
  /\ dryRun = "undefined" /\ last.op = "write" /\ last.io = "ok" /\ last.madeDir
  /\ Len(dirname(filename)) >= 2 /\ dirname(filename) \notin dirs0
  /\ content # <<>>

\* C3: readExistingFile() returns the text at the target path when it
\* exists and the candidate content when it does not; diff() on a target
\* path that does not exist reports nothing added and nothing removed.
C3_ReadExistingAndDiffOfAbsent ==
  /\ last.op = "read" =>
       last.value = (IF files[filename] # NoFile THEN files[filename] ELSE content)
  /\ (last.op = "diff" /\ files[filename] = NoFile) =>
       (last.changes.added = 0 /\ last.changes.removed = 0)

\* diff() of a non-empty candidate content against an absent target path
C3_Witness ==
  last.op = "diff" /\ files[filename] = NoFile /\ content # <<>>

\* C4 as stated: once save() has been called on an instance, no later
\* operation renders another diff or performs another write.
C4_NoTransitionAfterSave ==
  [][saves >= 1 => (rendered' = rendered /\ written' = written)]_vars

\* C4 as amended: the instance keeps no lifecycle state; each save() does
\* exactly one thing chosen by dryRun alone (render one diff, or invoke one
\* write) and each diff() renders one diff, however many calls were made.
C4_EachCallActsByMode ==
  /\ Truthy(dryRun) => (written = 0 /\ rendered = saves + diffs)
  /\ ~Truthy(dryRun) => (written = saves /\ rendered = diffs)

\* a write-mode instance on which a second save() has written again
C4_Witness ==
  ~Truthy(dryRun) /\ saves = 2 /\ written = 2 /\ last.op = "write"

----------------------------------------------------------------------------
(* Characters of identifiers.  Letters are b, s, e and their capitals, 1   *)
(* is the digit, every other character ("_", "-") is a separator.          *)

Lowers == {"b", "s", "e"}
Uppers == {"B", "S", "E"}
Digits == {"1"}
NameChars == {"b", "s", "B", "S", "1", "_"}
TableChars == {"b", "s", "S", "_"}

\* String.prototype.toLowerCase / toUpperCase of one character
lowerChar(c) == CASE c = "B" -> "b" [] c = "S" -> "s" [] c = "E" -> "e" [] OTHER -> c
upperChar(c) == CASE c = "b" -> "B" [] c = "s" -> "S" [] c = "e" -> "E" [] OTHER -> c
toLowerCase(w) == [i \in 1..Len(w) |-> lowerChar(w[i])]
toUpperCase(w) == [i \in 1..Len(w) |-> upperChar(w[i])]

IsWordChar(c) == c \in Lowers \cup Uppers \cup Digits

RECURSIVE Join(_, _)
Join(ws, sep) ==
  IF ws = <<>> THEN <<>>
  ELSE IF Len(ws) = 1 THEN ws[1]
  ELSE ws[1] \o sep \o Join(Tail(ws), sep)

----------------------------------------------------------------------------
(* change-case: split, noCase, camelCase, pascalCase, snakeCase, kebabCase *)

\* a word boundary falls between s[i] and s[i+1]:
\* SPLIT_LOWER_UPPER_RE /([\p{Ll}\d])(\p{Lu})/ or
\* SPLIT_UPPER_UPPER_RE /(\p{Lu})([\p{Lu}][\p{Ll}])/
Boundary(s, i) ==
  \/ s[i] \in Lowers \cup Digits /\ s[i + 1] \in Uppers
  \/ s[i] \in Uppers /\ s[i + 1] \in Uppers /\ i + 2 <= Len(s) /\ s[i + 2] \in Lowers

\* split(value): cut at the word boundaries, then at every run of
\* characters that are neither letters nor digits (DEFAULT_STRIP_REGEXP)
RECURSIVE SplitFrom(_, _, _, _)
SplitFrom(s, i, cur, acc) ==
  IF i > Len(s) THEN (IF cur = <<>> THEN acc ELSE Append(acc, cur))
  ELSE IF ~IsWordChar(s[i])
    THEN SplitFrom(s, i + 1, <<>>, IF cur = <<>> THEN acc ELSE Append(acc, cur))
  ELSE IF cur # <<>> /\ Boundary(s, i - 1)
    THEN SplitFrom(s, i + 1, <<s[i]>>, Append(acc, cur))
  ELSE SplitFrom(s, i + 1, Append(cur, s[i]), acc)

split(s) == SplitFrom(s, 1, <<>>, <<>>)

\* pascalCaseTransformFactory: a word that starts with a digit and is not
\* the first keeps the digit behind "_"; otherwise Capital + lower rest
pascalCaseTransform(word, index) ==
  (IF index > 1 /\ word[1] \in Digits THEN <<"_", word[1]>> ELSE <<upperChar(word[1])>>)
    \o toLowerCase(Tail(word))

noCase(s, delimiter) ==
  LET ws == split(s) IN Join([i \in 1..Len(ws) |-> toLowerCase(ws[i])], delimiter)

camelCase(s) ==
  LET ws == split(s) IN
  Join([i \in 1..Len(ws) |->
          IF i = 1 THEN toLowerCase(ws[i]) ELSE pascalCaseTransform(ws[i], i)], <<>>)

pascalCase(s) ==
  LET ws == split(s) IN
  Join([i \in 1..Len(ws) |-> pascalCaseTransform(ws[i], i)], <<>>)

snakeCase(s) == noCase(s, <<"_">>)
kebabCase(s) == noCase(s, <<"-">>)

----------------------------------------------------------------------------
(* pluralize: singular and plural, on words over NameChars (no irregular   *)
(* or uncountable word is spelled with these characters)                   *)

EndsInS(w) == Len(w) >= 1 /\ lowerChar(w[Len(w)]) = "s"
EndsInSS(w) == Len(w) >= 2 /\ lowerChar(w[Len(w)]) = "s" /\ lowerChar(w[Len(w) - 1]) = "s"

\* restoreCase(word, token) of pluralize
restoreCase(word, token) ==
  IF word = token THEN token
  ELSE IF word = toLowerCase(word) THEN toLowerCase(token)
  ELSE IF word = toUpperCase(word) THEN toUpperCase(token)
  ELSE IF word[1] = upperChar(word[1])
    THEN <<upperChar(token[1])>> \o toLowerCase(Tail(token))
  ELSE toLowerCase(token)

\* pluralize.singular: rule /(ss)$/i keeps, rule /s$/i drops the last s
singular(w) ==
  IF w = <<>> THEN w
  ELSE IF EndsInSS(w) THEN w
  ELSE IF EndsInS(w) THEN SubSeq(w, 1, Len(w) - 1)
  ELSE w

\* pluralize(word): rule /(x|ch|ss|sh|zz)$/i -> '$1es', rule /s?$/i -> 's'
pluralize(w) ==
  IF w = <<>> THEN w
  ELSE IF EndsInSS(w)
    THEN LET m == SubSeq(w, Len(w) - 1, Len(w)) IN
         SubSeq(w, 1, Len(w) - 2) \o restoreCase(m, m \o <<"e", "s">>)
  ELSE IF EndsInS(w)
    THEN SubSeq(w, 1, Len(w) - 1) \o restoreCase(<<w[Len(w)]>>, <<"s">>)
  ELSE w \o restoreCase(<<w[Len(w)]>>, <<"s">>)

----------------------------------------------------------------------------
(* StringHelper *)

Unset == "undefined"
CaseStyles == {"camel", "pascal", "lower_snake", "upper_snake", "kebab", Unset}
SingularizeModes == {"singular", "plural", Unset}

\* StringHelper.getModeSingularize
getModeSingularize(name, type) ==
  CASE type = "singular" -> singular(name)
    [] type = "plural" -> pluralize(name)
    [] OTHER -> name

\* StringHelper.formatName
formatNameFallThrough(name, caseType) ==
  CASE caseType = "camel" -> camelCase(name)
    [] caseType = "lower_snake" -> toUpperCase(snakeCase(name))
    [] caseType = "pascal" -> pascalCase(name)
    [] caseType = "upper_snake" -> toUpperCase(snakeCase(name))
    [] caseType = "kebab" -> kebabCase(name)
    [] OTHER -> name
formatName(name, caseType) ==
  CASE caseType = "camel" -> camelCase(name)
    [] caseType = "lower_snake" -> snakeCase(name)
    [] caseType = "pascal" -> pascalCase(name)
    [] caseType = "upper_snake" -> toUpperCase(snakeCase(name))
    [] caseType = "kebab" -> kebabCase(name)
    [] OTHER -> name

Names == SeqsUpTo(NameChars, MaxName)

\* the inputs of a call formatName(s, c)
CaseInit ==
  /\ \E s \in Names, c \in CaseStyles : res = [op |-> "input", value |-> s, style |-> c]
  /\ naming = None /\ fmt = None /\ tableName = None /\ override = None
  /\ FsIdle /\ FileIdle /\ ExpIdle

\* StringHelper.formatName(s, c)
FormatName ==
  /\ res.op = "input"
  /\ res' = [op |-> "formatName", arg |-> res.value, style |-> res.style,
             value |-> formatName(res.value, res.style)]
  /\ UNCHANGED <<fsVars, fileVars, naming, fmt, tableName, override, expVars>>

\* StringHelper.formatName(r, c) on the result r of the previous call
FormatNameAgain ==
  /\ res.op = "formatName"
  /\ res' = [op |-> "formatNameAgain", arg |-> res.value, style |-> res.style,
             value |-> formatName(res.value, res.style), first |-> res.arg]
  /\ UNCHANGED <<fsVars, fileVars, naming, fmt, tableName, override, expVars>>

CaseNext == FormatName \/ FormatNameAgain

CaseSpec == CaseInit /\ [][CaseNext]_vars

\* C8 as stated: for every case style c and input s,
\* formatName(formatName(s, c), c) = formatName(s, c).
C8_FormatNameIdempotent ==
  res.op = "formatNameAgain" => res.value = res.arg

\* C8 as amended: re-casing is idempotent for lower_snake, kebab and the
\* unset style (camel, pascal and upper_snake can change their own result).
C8_FormatNameIdempotentLower ==
  (res.op = "formatNameAgain" /\ res.style \in {"lower_snake", "kebab", Unset})
    => res.value = res.arg

\* lower_snake applied a second time to a name of several words that the
\* first call had to change
C8_Witness ==
  /\ res.op = "formatNameAgain" /\ res.style = "lower_snake"
  /\ res.first # res.arg /\ Len(split(res.first)) >= 2

----------------------------------------------------------------------------
(* ModelFormatter: the naming facade *)

\* options.generator?.model?.naming of options that carry no naming section
NoNaming == [undefined |-> TRUE]

TableNames == SeqsUpTo(TableChars, MaxTable)

\* ModelNamingOptions: every field may be unset
NamingOptions ==
  [model : CaseStyles, file : CaseStyles, property : CaseStyles,
   singularizeModel : SingularizeModes]

\* ModelFormatter.create(options): new ModelFormatter(options), nothing else
create(n) == "created"

\* ModelFormatter.getOptions: this.options.generator?.model?.naming!
getOptions(n) == n

\* reading a property of getOptions() throws a TypeError when it is undefined
Throws(n) == getOptions(n) = NoNaming

\* ModelFormatter.getModelName
getModelNameCaseFirst(n, t) ==
  getModeSingularize(formatName(t, getOptions(n).model), getOptions(n).singularizeModel)
getModelName(n, t) ==
  formatName(getModeSingularize(t, getOptions(n).singularizeModel), getOptions(n).model)

\* ModelFormatter.getFileName
getFileName(n, t) ==
  formatName(getModeSingularize(t, getOptions(n).singularizeModel), getOptions(n).file)

\* ModelFormatter.getPropertyName
getPropertyName(n, t) == formatName(t, getOptions(n).property)

\* generator options (with or without the naming section) and a table name
FormatterInit ==
  /\ naming \in NamingOptions \cup {NoNaming}
  /\ tableName \in TableNames
  /\ fmt = "none"
  /\ res = [op |-> "new"]
  /\ override = None
  /\ FsIdle /\ FileIdle /\ ExpIdle

\* ModelFormatter.create(options)
Create ==
  /\ fmt = "none"
  /\ fmt' = create(naming)
  /\ res' = [op |-> "create"]
  /\ UNCHANGED <<fsVars, fileVars, naming, tableName, override, expVars>>

\* formatter.getModelName(tableName)
GetModelName ==
  /\ fmt = "created"
  /\ res' = IF Throws(naming) THEN [op |-> "getModelName", threw |-> "TypeError"]
            ELSE [op |-> "getModelName", value |-> getModelName(naming, tableName)]
  /\ UNCHANGED <<fsVars, fileVars, naming, fmt, tableName, override, expVars>>

\* formatter.getFileName(tableName)
GetFileName ==
  /\ fmt = "created"
  /\ res' = IF Throws(naming) THEN [op |-> "getFileName", threw |-> "TypeError"]
            ELSE [op |-> "getFileName", value |-> getFileName(naming, tableName)]
  /\ UNCHANGED <<fsVars, fileVars, naming, fmt, tableName, override, expVars>>

\* formatter.getPropertyName(tableName)
GetPropertyName ==
  /\ fmt = "created"
  /\ res' = IF Throws(naming) THEN [op |-> "getPropertyName", threw |-> "TypeError"]
            ELSE [op |-> "getPropertyName", value |-> getPropertyName(naming, tableName)]
  /\ UNCHANGED <<fsVars, fileVars, naming, fmt, tableName, override, expVars>>

FormatterNext == Create \/ GetModelName \/ GetFileName \/ GetPropertyName

FormatterSpec == FormatterInit /\ [][FormatterNext]_vars

\* C5: creating a ModelFormatter from options without the naming section
\* fails, so no instance exists whose naming configuration is absent.
C5_NoFormatterWithoutNaming ==
  fmt = "created" => naming # NoNaming

\* C7: getModelName and getFileName singularize/pluralize first and re-case
\* second, with the model and the file style; an unset singularizeModel
\* leaves the name to the case rendering alone and an unset style leaves
\* the singularized name unchanged.
C7_SingularizeThenCase ==
  LET styleOf == IF res.op = "getModelName" THEN naming.model ELSE naming.file
      sing == getModeSingularize(tableName, naming.singularizeModel)
  IN (res.op \in {"getModelName", "getFileName"} /\ naming # NoNaming) =>
       /\ res.value = formatName(sing, styleOf)
       /\ naming.singularizeModel = Unset => res.value = formatName(tableName, styleOf)
       /\ styleOf = Unset => res.value = sing
       /\ (styleOf = Unset /\ naming.singularizeModel = Unset) => res.value = tableName

\* getModelName on a plural multi-word table name, singularized and
\* rendered in pascal case, where the other order gives another name
C7_Witness ==
  /\ res.op = "getModelName" /\ naming # NoNaming
  /\ naming.singularizeModel = "singular" /\ naming.model = "pascal"
  /\ singular(tableName) # tableName /\ Len(split(tableName)) >= 2
  /\ res.value # getModeSingularize(formatName(tableName, "pascal"), "singular")

----------------------------------------------------------------------------
(* ModelFormatter: the template-variable factories *)

\* the value of a property that is present and undefined
JsUndefined == "<undefined>"

ModelSlots ==
  {"schemaName", "imports", "modelsImport", "modelName", "enums", "interfaces",
   "tableName", "fields", "associations", "attributes", "options", "typesImport"}
InitSlots == {"importClasses", "importTypes", "associations", "exportClasses"}

\* values a caller may put in a slot of the partial record
SlotValues == {"", "User", JsUndefined}

\* Partial<T>: any of the slots, each with a value, undefined allowed
Partials(slots) ==
  UNION { [K -> SlotValues] : K \in { X \in SUBSET slots : Cardinality(X) <= MaxOverride } }

\* { ...defaults, ...partial }: every own key of partial replaces the default
Spread(defaults, partial) ==
  [k \in DOMAIN defaults \cup DOMAIN partial |->
     IF k \in DOMAIN partial THEN partial[k] ELSE defaults[k]]

\* ModelFormatter.getModelTemplateVars
getModelTemplateVars(partial) == Spread([k \in ModelSlots |-> ""], partial)

\* ModelFormatter.getInitializerTemplateVars
getInitializerTemplateVars(partial) == Spread([k \in InitSlots |-> ""], partial)

\* the partial record a caller passes (none is the empty record)
FactoryInit ==
  /\ override \in Partials(ModelSlots) \cup Partials(InitSlots)
  /\ res = [op |-> "new"]
  /\ naming = None /\ fmt = None /\ tableName = None
  /\ FsIdle /\ FileIdle /\ ExpIdle

\* ModelFormatter.getModelTemplateVars(override)
GetModelTemplateVars ==
  /\ DOMAIN override \subseteq ModelSlots
  /\ res' = [op |-> "getModelTemplateVars", slots |-> ModelSlots,
             value |-> getModelTemplateVars(override)]
  /\ UNCHANGED <<fsVars, fileVars, naming, fmt, tableName, override, expVars>>

\* ModelFormatter.getInitializerTemplateVars(override)
GetInitializerTemplateVars ==
  /\ DOMAIN override \subseteq InitSlots
  /\ res' = [op |-> "getInitializerTemplateVars", slots |-> InitSlots,
             value |-> getInitializerTemplateVars(override)]
  /\ UNCHANGED <<fsVars, fileVars, naming, fmt, tableName, override, expVars>>

FactoryNext == GetModelTemplateVars \/ GetInitializerTemplateVars

FactorySpec == FactoryInit /\ [][FactoryNext]_vars

\* C6: for every partial record, one with an undefined slot value included,
\* both factories return a record in which every slot is a defined string:
\* the override's value where it gives the slot, the empty string elsewhere.
C6_EverySlotDefined ==
  res.op \in {"getModelTemplateVars", "getInitializerTemplateVars"} =>
    \A k \in res.slots :
      /\ k \in DOMAIN res.value
      /\ res.value[k] # JsUndefined
      /\ k \in DOMAIN override => res.value[k] = override[k]
      /\ k \notin DOMAIN override => res.value[k] = ""

----------------------------------------------------------------------------
(* DbmlDiagramExporter *)

ConnectionStrings == {"postgresql://a", "postgresql://b"}

\* what connector.fetchSchemaJson settles with
FetchResults == {"object", "null", "string", "rejected"}
\* what importer.generateDbml does
GenerateResults == {"string", "null", "throws"}
\* what fs.mkdirSync and TemplateWriter.renderOut do
CallResults == {"ok", "throws"}

\* export returns at once: if (this.options.dryRun) return
exportReturnsEarlyNever(dr) == FALSE
exportReturnsEarly(dr) == Truthy(dr)

\* the README text rendered from the 'dbml-readme' template
readmeText(out) == <<"dbml-readme", basename(out)>>
readmePath(out) == Append(dirname(out), "README.md")

\* the body of the try block after the await, as the list of the steps it
\* completes before it finishes or throws: the schema is fetched and valid,
\* the DBML is generated, the output directory exists (made if needed), the
\* DBML file is saved, the README is rendered, success is logged
StepsDone(fetch, gen, mk, io, readme, needDir) ==
  IF fetch = "rejected" THEN <<>>
  ELSE IF fetch # "object" THEN <<"fetched">>
  ELSE IF gen # "string" THEN <<"fetched">>
  ELSE IF needDir /\ mk = "throws" THEN <<"fetched", "generated">>
  ELSE IF io # "ok" THEN <<"fetched", "generated", "dirReady">>
  ELSE IF readme = "throws" THEN <<"fetched", "generated", "dirReady", "saved">>
  ELSE <<"fetched", "generated", "dirReady", "saved", "readme", "logged">>

Has(t, e) == \E i \in 1..Len(t) : t[i] = e
Pos(t, e) == CHOOSE i \in 1..Len(t) : t[i] = e

\* what the catch block does with the error: logs it, nothing is rethrown
catchOutcome == "resolved"

ExportInit ==
  /\ filename \in TargetPaths
  /\ \E s \in InitialFs(filename) : dirs = s[1] /\ files = s[2]
  /\ dirs0 = dirs /\ files0 = files
  /\ dryRun \in DryRunValues
  /\ conn \in ConnectionStrings
  /\ pc = "idle" /\ outcome = "none" /\ trace = <<>>
  /\ content = None
  /\ saves = 0 /\ diffs = 0 /\ rendered = 0 /\ written = 0 /\ last = None
  /\ FmtIdle

\* exporter.export(conn, filename), up to the await of fetchSchemaJson
Export ==
  /\ pc = "idle"
  /\ IF exportReturnsEarly(dryRun)
       THEN pc' = "done" /\ outcome' = "resolved" /\ trace' = trace
       ELSE pc' = "awaiting" /\ outcome' = "pending" /\ trace' = <<"fetch">>
  /\ UNCHANGED <<fsVars, fileVars, fmtVars, conn>>

\* the rest of export, run when fetchSchemaJson settles
ExportResume ==
  /\ pc = "awaiting"
  /\ \E fetch \in FetchResults, gen \in GenerateResults, text \in Contents,
        mk \in CallResults, io \in IoOutcomes, readme \in CallResults :
       LET needDir == ~existsSync(dirs, files, dirname(filename))
           steps == StepsDone(fetch, gen, mk, io, readme, needDir)
           dirs1 == IF Has(steps, "dirReady") THEN mkdirSync(dirs, dirname(filename)) ELSE dirs
           dirs2 == IF Has(steps, "dirReady") THEN saveDirs(dirs1, filename, io) ELSE dirs1
           files1 == IF Has(steps, "dirReady") THEN saveFiles(files, filename, text, io) ELSE files
           files2 == IF Has(steps, "readme")
                       THEN [files1 EXCEPT ![readmePath(filename)] = readmeText(filename)]
                       ELSE files1
       IN /\ dirs' = dirs2
          /\ files' = files2
          /\ written' = IF Has(steps, "dirReady") THEN written + 1 ELSE written
          /\ trace' = trace \o steps \o (IF Has(steps, "logged") THEN <<>> ELSE <<"caught">>)
          /\ outcome' = IF Has(steps, "logged") THEN "resolved" ELSE catchOutcome
  /\ pc' = "done"
  /\ UNCHANGED <<dirs0, files0, filename, content, dryRun, saves, diffs, rendered, last>>
  /\ UNCHANGED <<fmtVars, conn>>

ExportNext == Export \/ ExportResume

ExportSpec == ExportInit /\ [][ExportNext]_vars

\* C9: export rejects when schema fetching, DBML generation or file saving
\* fails, and resolves only when the export is complete.
C9_ExportRejectsOnFailure ==
  (pc = "done" /\ ~Truthy(dryRun)) =>
    /\ Has(trace, "caught") => outcome = "rejected"
    /\ outcome = "resolved" => Has(trace, "logged")

\* C10: under dryRun export returns before any step (no fetch, no directory,
\* no DBML file, no README: the file system is unchanged); otherwise the
\* DBML file is written only after the fetch and the generation succeeded
\* and the README is rendered only after the DBML file is saved.
C10_DryRunFirstThenOrderedSteps ==
  /\ Truthy(dryRun) => (trace = <<>> /\ dirs = dirs0 /\ files = files0 /\ written = 0)
  /\ (files[filename] # files0[filename] \/ Has(trace, "saved")) =>
       /\ Has(trace, "fetched") /\ Has(trace, "generated") /\ Has(trace, "saved")
       /\ Pos(trace, "fetched") < Pos(trace, "generated")
       /\ Pos(trace, "generated") < Pos(trace, "saved")
  /\ (files[readmePath(filename)] # NoFile \/ Has(trace, "readme")) =>
       /\ Has(trace, "saved") /\ Has(trace, "readme")
       /\ Pos(trace, "saved") < Pos(trace, "readme")
       /\ files[filename] # NoFile

\* a real run that created the output directory, saved the DBML file and
\* rendered the README
C10_Witness ==
  /\ ~Truthy(dryRun) /\ pc = "done" /\ Has(trace, "logged")
  /\ dirname(filename) \notin dirs0
  /\ files[filename] # NoFile /\ files[readmePath(filename)] # NoFile

====
